---- MODULE Spec2Model ----
(***************************************************************************)
(* The auto-indexer (auto_index.py), its indexer (lambda_indexer.py) and   *)
(* the RAG server's shared indexer (rag_server.py).                        *)
(*                                                                         *)
(* Time is counted in half-second ticks.  A path is a sequence of          *)
(* components, a component a record [stem, suffix] whose name is           *)
(* stem ++ suffix (pathlib's split of a name at its last dot).             *)
(***************************************************************************)
EXTENDS Integers, Sequences, FiniteSets, TLC

VARIABLES
    fs,            \* project tree: user file -> content version, 0 = absent
    disk_emb,      \* lambda_index_embeddings.npz: [exists, data]
    disk_meta,     \* lambda_index_metadata.json: [state, data]
    embeddings,    \* LambdaProjectIndexer.embeddings
    metadata,      \* LambdaProjectIndexer.metadata
    now,           \* time.time(), in ticks
    last_reindex,  \* ProjectFileHandler.last_reindex, in ticks
    queue,         \* the observer's queue of events not yet dispatched
    running,       \* the observer thread is started and alive
    pc,            \* position of the thread that drives the indexer
    caller,        \* who called index_project/save_index: "main" or "watcher"
    current_time,  \* trigger_reindex's local current_time, 0 outside a re-index
    output,        \* the last message printed by trigger_reindex
    dirsTodo,      \* os.walk: directories still to be listed
    filesTodo,     \* os.walk: eligible files of the listed directory still to do
    file,          \* the file the loop body is working on
    runs,          \* history: <<the re-index before the latest, the latest>>
    lastOkStart,   \* history: start of the latest re-index that succeeded, -1 if none
    lastDone,      \* history: return of the latest re-index that succeeded, -1 if none
    lastRelevant,  \* history: arrival of the latest relevant event handled, -1 if none
    failed,        \* history: files whose embed_file raised in this index_project
    upsets,        \* number of changes to the tree and of embedder or disk failures
    threads,       \* rag_server: the request threads on the shared indexer
    cwd,           \* the directory the process was started in
    chunker        \* a call of _chunk_text: its arguments and what it returned

fsVars      == <<fs>>
diskVars    == <<disk_emb, disk_meta>>
storeVars   == <<embeddings, metadata>>
walkVars    == <<dirsTodo, filesTodo, file>>
handlerVars == <<last_reindex, running, pc, caller, current_time, output>>
histVars    == <<runs, lastOkStart, lastDone, lastRelevant>>

vars == <<fs, disk_emb, disk_meta, embeddings, metadata, now, last_reindex, queue,
          running, pc, caller, current_time, output, dirsTodo, filesTodo, file,
          runs, lastOkStart, lastDone, lastRelevant, failed, upsets, threads,
          cwd, chunker>>

----------------------------------------------------------------------------
(* Bounds *)

Horizon    == 4    \* ticks the clock runs after start-up
MaxUpsets  == 2    \* changes to the project tree plus embedder and disk failures

----------------------------------------------------------------------------
(* Time *)

reindex_delay == 2                       \* seconds

Seconds(n) == n + n                      \* seconds -> ticks

\* time.time() at start-up is far more than reindex_delay past the epoch 0
\* that last_reindex starts at.
StartTime == Seconds(reindex_delay)

MaxTime == StartTime + Horizon

----------------------------------------------------------------------------
(* Paths *)

Comp(s, x) == [stem |-> s, suffix |-> x]

a_py      == << Comp("a", ".py") >>
b_md      == << Comp("docs", ""), Comp("b", ".md") >>
c_py      == << Comp("venv", ""), Comp("c", ".py") >>
meta_json == << Comp("lambda_index_metadata", ".json") >>
emb_npz   == << Comp("lambda_index_embeddings", ".npz") >>

UserFiles == {a_py, b_md, c_py}
Mutable   == {a_py, b_md}           \* the user files whose content changes
Versions(p) == IF p = a_py THEN 1..2 ELSE 1..1

\* the directories the process can be started in
Roots == { << Comp("/", ""), Comp("proj", "") >>,
           << Comp("/", ""), Comp("node_modules", ""), Comp("proj", "") >> }

\* os.path.abspath("./")
project_path == cwd

Last(s)   == s[Len(s)]
Parent(p) == SubSeq(p, 1, Len(p) - 1)

\* os.path.join(root, file) / os.path.relpath(filepath, project_path)
Abs(rel) == project_path \o rel
Rel(abs) == SubSeq(abs, Len(project_path) + 1, Len(abs))

EmptyMap == [p \in {} |-> 0]

AllFiles == UserFiles \cup {meta_json, emb_npz}

\* the directories of the tree (they exist throughout)
AllDirs == {SubSeq(p, 1, n) : p \in AllFiles, n \in 0..1} \ AllFiles

Subdirs(d) == {e \in AllDirs : e # << >> /\ Parent(e) = d}

\* a component's name is one of `names` (none of which has a suffix)
NameIn(c, names) == c.suffix = "" /\ c.stem \in names

Perms(S) == {s \in [1..Cardinality(S) -> S] : \A i, j \in 1..Cardinality(S) : s[i] = s[j] => i = j}

----------------------------------------------------------------------------
(* The file system *)

NoIndexFile == [exists |-> FALSE, data |-> EmptyMap]
NoMetaFile  == [state |-> "missing", data |-> EmptyMap]

Exists(p) ==
    IF p = emb_npz THEN disk_emb.exists
    ELSE IF p = meta_json THEN disk_meta.state # "missing"
    ELSE fs[p] > 0

\* what open(p).read() returns: a content identity
Content(p) ==
    IF p = meta_json
    THEN IF disk_meta.state = "ok" THEN 10 + Cardinality(DOMAIN disk_meta.data) ELSE 9
    ELSE IF p = emb_npz THEN 20
    ELSE fs[p]

\* os.path.getsize
Size(c) == 100 * c

\* embed_file on content c: chunked, embedded and averaged by a deterministic model
Vec(c) == [of |-> c]

----------------------------------------------------------------------------
(* Eligibility *)

extensions == {".py", ".md", ".json", ".yaml", ".yml", ".txt"}
ignored    == {"venv", "__pycache__", ".git", "node_modules", ".venv"}

\* should_index without lines 39-42: only the suffix is looked at
should_index_suffix_only(filepath) == Last(filepath).suffix \in extensions

\* ProjectFileHandler.should_index, on the event's absolute path
should_index(filepath) ==
    IF \E i \in 1..Len(filepath) : NameIn(filepath[i], ignored)
    THEN FALSE
    ELSE Last(filepath).suffix \in extensions

index_extensions == {".py", ".md", ".json", ".yaml", ".yml", ".txt"}
pruned           == {"venv", "__pycache__", ".git", "node_modules", ".venv"}

\* the listing of the directories without lines 96-98
KeptDirsUnpruned(d) == Subdirs(d)

\* os.walk's listing of directory d, after index_project's filters
KeptDirs(d)  == {e \in Subdirs(d) : ~NameIn(Last(e), pruned)}
KeptFiles(d) == {p \in AllFiles : Parent(p) = d /\ Exists(p) /\ Last(p).suffix \in index_extensions}

----------------------------------------------------------------------------
(* Events *)

Event(p, k) == [src_path |-> Abs(p), is_directory |-> FALSE, kind |-> k, at |-> now]
DirEvent(d) == [src_path |-> Abs(d), is_directory |-> TRUE, kind |-> "modified", at |-> now]
NoEvent     == [src_path |-> << >>, is_directory |-> FALSE, kind |-> "none", at |-> 0]

\* the observer queues an event only while it is started
Emit(q, evs) == IF running THEN q \o evs ELSE q


----------------------------------------------------------------------------
(* LambdaProjectIndexer.search *)

Min(a, b) == IF a < b THEN a ELSE b
Max(a, b) == IF a > b THEN a ELSE b

\* cosine similarity of the query's vector and a file's, in hundredths; the
\* embedder puts contents that are closer nearer
Score(q, v) == Max(100 - (q - v.of) * (q - v.of), -100)

\* sorted(similarities.items(), key = score, reverse = True): the orders of the
\* keys with non-increasing scores (equal scores keep the mapping's order)
Sorted(sims) ==
    {s \in Perms(DOMAIN sims) : \A i, j \in 1..Len(s) : i < j => sims[s[i]] >= sims[s[j]]}

\* s[:k]
Slice(s, k) ==
    IF k >= 0 THEN SubSeq(s, 1, Min(k, Len(s))) ELSE SubSeq(s, 1, Max(Len(s) + k, 0))

----------------------------------------------------------------------------
(* rag_server: request threads *)

Threads == {"t1", "t2"}
Queries == {1, 2}
TopKs   == {-1, 0, 1, 3}

IdleThread ==
    [pc |-> "idle", dirs |-> << >>, files |-> {}, file |-> << >>, size0 |-> 0,
     sims |-> EmptyMap, q |-> 0, top_k |-> 0, top |-> << >>, raised |-> "none",
     last |-> "none", results |-> << >>]

----------------------------------------------------------------------------
(* LambdaProjectIndexer._chunk_text.  A text is a sequence of characters, a
   word a non-empty sequence of characters other than white space. *)

MaxTextLen == 7
MaxWords   == 3

NoChunking == [pc |-> "none", text |-> << >>, max_length |-> 0, chunks |-> << >>]

Chars == {"a", "b", " "}
Texts == UNION { [1..n -> Chars] : n \in 0..MaxTextLen }

\* str.split(): the maximal runs of characters that are not white space
RECURSIVE SplitScan(_, _, _, _)
SplitScan(text, i, word, words) ==
    LET closed == IF word = << >> THEN words ELSE Append(words, word)
    IN  IF i > Len(text) THEN closed
        ELSE IF text[i] = " " THEN SplitScan(text, i + 1, << >>, closed)
        ELSE SplitScan(text, i + 1, Append(word, text[i]), words)

split(text) == SplitScan(text, 1, << >>, << >>)

RECURSIVE join_without_separator(_)
join_without_separator(words) ==
    IF words = << >> THEN << >>
    ELSE Head(words) \o join_without_separator(Tail(words))

\* ' '.join(words)
RECURSIVE join(_)
join(words) ==
    IF words = << >> THEN << >>
    ELSE IF Len(words) = 1 THEN words[1]
    ELSE words[1] \o << " " >> \o join(Tail(words))

FullWhenOver(current_chunk, max_length) ==
    Len(split(join(current_chunk))) > max_length

\* the test that closes the current chunk
Full(current_chunk, max_length) ==
    Len(split(join(current_chunk))) >= max_length

\* the loop over the words, from the i-th on
RECURSIVE ChunkLoop(_, _, _, _, _)
ChunkLoop(words, i, current_chunk, chunks, max_length) ==
    IF i > Len(words) THEN [chunks |-> chunks, current_chunk |-> current_chunk]
    ELSE LET appended == Append(current_chunk, words[i])
         IN  IF Full(appended, max_length)
             THEN ChunkLoop(words, i + 1, << >>,
                            Append(chunks, join(appended)), max_length)
             ELSE ChunkLoop(words, i + 1, appended, chunks, max_length)

chunk_text(text, max_length) ==
    LET loop   == ChunkLoop(split(text), 1, << >>, << >>, max_length)
        chunks == IF loop.current_chunk # << >>
                  THEN Append(loop.chunks, join(loop.current_chunk))
                  ELSE loop.chunks
    IN  IF chunks # << >> THEN chunks ELSE << text >>

----------------------------------------------------------------------------
(* The index store *)

\* m.setdefault(k, v): an entry already there is kept
PutIfAbsent(m, k, v) == [x \in DOMAIN m \cup {k} |-> IF x \in DOMAIN m THEN m[x] ELSE v]

\* m[k] = v
Put(m, k, v) == [x \in DOMAIN m \cup {k} |-> IF x = k THEN v ELSE m[x]]

\* the metadata entry index_project builds for rel_path with content c
MetaEntry(rel, c) ==
    [absolute_path |-> Abs(rel), extension |-> Last(rel).suffix, size |-> Size(c)]

\* np.savez(file, **{k: v}): the array passed as keyword k is the archive's
\* member k.npy
NpzMember(k) == k \o << Comp("", ".npy") >>
Savez(emb)   == [m \in {NpzMember(k) : k \in DOMAIN emb} |-> emb[Parent(m)]]

\* np.load(..).files: the members' names without their .npy
NpzFiles(data) == {IF Last(m) = Comp("", ".npy") THEN Parent(m) ELSE m : m \in DOMAIN data}

\* load_index, line 173 with the member names as they are in the archive
NpzLoadMembers(data) == [m \in DOMAIN data |-> data[m]]

\* load_index, line 173: {k: data[k] for k in data.files}
NpzLoad(data) == [k \in NpzFiles(data) |-> data[NpzMember(k)]]

\* json.dump(self.metadata): an object of objects, strings and numbers
JsonDump(meta) ==
    [k \in DOMAIN meta |->
        [absolute_path |-> [string |-> meta[k].absolute_path],
         extension     |-> [string |-> meta[k].extension],
         size          |-> [number |-> meta[k].size]]]

\* json.load
JsonLoad(doc) ==
    [k \in DOMAIN doc |->
        [absolute_path |-> doc[k].absolute_path.string,
         extension     |-> doc[k].extension.string,
         size          |-> doc[k].size.number]]

\* what an earlier run's first build of the initial tree saved
FirstEmb  == [p \in {a_py, b_md} |-> Vec(1)]
FirstMeta == [p \in {a_py, b_md} |-> MetaEntry(p, 1)]

\* the metadata document of a run before docs/b.md was there
OlderMeta == [p \in {a_py} |-> MetaEntry(p, 1)]

\* the artifacts an earlier run can have left: none, a saved pair, the vector
\* container alone (its first save_index raised at the metadata document), or a
\* newer vector container beside an older metadata document (a later save_index
\* raised there)
InitDisks ==
    { <<NoIndexFile, NoMetaFile>>,
      <<[exists |-> TRUE, data |-> Savez(FirstEmb)], [state |-> "ok", data |-> JsonDump(FirstMeta)]>>,
      <<[exists |-> TRUE, data |-> Savez(FirstEmb)], NoMetaFile>>,
      <<[exists |-> TRUE, data |-> Savez(FirstEmb)], [state |-> "ok", data |-> JsonDump(OlderMeta)]>> }

\* a re-index of the watcher: the event that started it, when, and how it ended
NoRun == [ev |-> NoEvent, start |-> -1, result |-> "none", prev |-> -1]

Init ==
    /\ cwd \in Roots
    /\ fs = [p \in UserFiles |-> 1]
    /\ \E d \in InitDisks : disk_emb = d[1] /\ disk_meta = d[2]
    /\ embeddings = EmptyMap
    /\ metadata = EmptyMap
    /\ now = StartTime
    /\ last_reindex = 0
    /\ queue = << >>
    /\ running = FALSE
    /\ pc = "start"
    /\ caller = "main"
    /\ current_time = 0
    /\ output = "none"
    /\ dirsTodo = << >>
    /\ filesTodo = {}
    /\ file = << >>
    /\ runs = <<NoRun, NoRun>>
    /\ lastOkStart = -1
    /\ lastDone = -1
    /\ lastRelevant = -1
    /\ failed = {}
    /\ upsets = 0
    /\ threads = [t \in Threads |-> IdleThread]
    /\ chunker = NoChunking

----------------------------------------------------------------------------
(* The environment: the clock and the project tree *)

\* The program reads the clock when a callback starts and the history reads it
\* when a re-index returns, so it is enough that the clock advances between
\* callbacks and once inside a re-index (before save_index).  An idle observer
\* thread takes a waiting event at once: no tick passes while one waits.
Tick ==
    /\ now < MaxTime
    /\ running
    /\ \/ pc = "idle" /\ queue = << >>
       \/ pc = "savez"
    /\ now' = now + 1
    /\ UNCHANGED <<fsVars, diskVars, storeVars, queue, handlerVars, walkVars,
                   histVars, failed, upsets>>
    /\ UNCHANGED <<threads, cwd, chunker>>

EnvFrame == <<diskVars, storeVars, now, handlerVars, walkVars, histVars, failed>>

CanChange == upsets < MaxUpsets /\ pc # "crashed"

CreateFile(p) ==
    /\ CanChange
    /\ fs[p] = 0
    /\ \E v \in Versions(p) : fs' = [fs EXCEPT ![p] = v]
    /\ queue' = Emit(queue, <<Event(p, "created")>>)
    /\ upsets' = upsets + 1
    /\ UNCHANGED EnvFrame
    /\ UNCHANGED <<threads, cwd, chunker>>

ModifyFile(p) ==
    /\ CanChange
    /\ fs[p] > 0
    /\ \E v \in Versions(p) \ {fs[p]} : fs' = [fs EXCEPT ![p] = v]
    /\ queue' = Emit(queue, <<Event(p, "modified")>>)
    /\ upsets' = upsets + 1
    /\ UNCHANGED EnvFrame
    /\ UNCHANGED <<threads, cwd, chunker>>

DeleteFile(p) ==
    /\ CanChange
    /\ fs[p] > 0
    /\ fs' = [fs EXCEPT ![p] = 0]
    /\ queue' = Emit(queue, <<Event(p, "deleted")>>)
    /\ upsets' = upsets + 1
    /\ UNCHANGED EnvFrame
    /\ UNCHANGED <<threads, cwd, chunker>>

\* a subdirectory's listing or attributes change: the observer reports the
\* directory itself as modified
TouchDir(d) ==
    /\ CanChange
    /\ running
    /\ queue' = Emit(queue, <<DirEvent(d)>>)
    /\ upsets' = upsets + 1
    /\ UNCHANGED <<fsVars, EnvFrame>>
    /\ UNCHANGED <<threads, cwd, chunker>>

----------------------------------------------------------------------------
(* LambdaProjectIndexer.index_project *)

\* the call: os.walk starts at project_path
IndexStart ==
    /\ dirsTodo' = << << >> >>
    /\ filesTodo' = {}
    /\ file' = << >>
    /\ failed' = {}

\* os.walk lists the next directory; the subdirectories kept are walked next,
\* in the listing's order, before the directories already waiting
WalkDir ==
    /\ pc = "walk"
    /\ dirsTodo # << >>
    /\ LET d == Head(dirsTodo) IN
        /\ \E sub \in Perms(KeptDirs(d)) : dirsTodo' = sub \o Tail(dirsTodo)
        /\ filesTodo' = KeptFiles(d)
        /\ pc' = IF KeptFiles(d) = {} THEN "walk" ELSE "body"
    /\ UNCHANGED <<fsVars, diskVars, storeVars, now, queue, last_reindex, running,
                   caller, current_time, output, file, histVars, failed, upsets>>
    /\ UNCHANGED <<threads, cwd, chunker>>

NextFile(todo) == IF todo = {} THEN "walk" ELSE "body"

\* lines 102-108: embed_file reads and embeds the file, then the vector is stored;
\* a missing file or a failing embedder raises, which the loop body catches
EmbedFile(f, embedderOk) ==
    /\ pc = "body"
    /\ f \in filesTodo
    /\ embedderOk \/ upsets < MaxUpsets
    /\ upsets' = IF embedderOk THEN upsets ELSE upsets + 1
    /\ IF Exists(f) /\ embedderOk
       THEN /\ embeddings' = Put(embeddings, f, Vec(Content(f)))
            /\ file' = f
            /\ pc' = "meta"
            /\ UNCHANGED <<filesTodo, failed>>
       ELSE /\ failed' = failed \cup {f}
            /\ filesTodo' = filesTodo \ {f}
            /\ pc' = NextFile(filesTodo \ {f})
            /\ UNCHANGED <<embeddings, file>>
    /\ UNCHANGED <<fsVars, diskVars, metadata, now, queue, last_reindex, running,
                   caller, current_time, output, dirsTodo, histVars>>
    /\ UNCHANGED <<threads, cwd, chunker>>

\* lines 109-117: the metadata entry; os.path.getsize raises when the file has
\* gone since it was read, which the loop body catches
MetaFile ==
    /\ pc = "meta"
    /\ IF Exists(file)
       THEN metadata' = Put(metadata, file, MetaEntry(file, Content(file)))
       ELSE UNCHANGED metadata
    /\ filesTodo' = filesTodo \ {file}
    /\ file' = << >>
    /\ pc' = NextFile(filesTodo \ {file})
    /\ UNCHANGED <<fsVars, diskVars, embeddings, now, queue, last_reindex, running,
                   caller, current_time, output, dirsTodo, histVars, failed, upsets>>
    /\ UNCHANGED <<threads, cwd, chunker>>

\* os.walk is exhausted: index_project returns and the caller calls save_index
WalkEnd ==
    /\ pc = "walk"
    /\ dirsTodo = << >>
    /\ pc' = "savez"
    /\ UNCHANGED <<fsVars, diskVars, storeVars, now, queue, last_reindex, running,
                   caller, current_time, output, walkVars, histVars, failed, upsets>>
    /\ UNCHANGED <<threads, cwd, chunker>>

----------------------------------------------------------------------------
(* Returning from index_project + save_index to the caller *)

Ended(how) == <<runs[1], [runs[2] EXCEPT !.result = how]>>

\* trigger_reindex with line 62 reading the clock again: the time the re-index
\* ended is kept
ReturnOkAtCompletion ==
    IF caller = "main"
    THEN /\ running' = TRUE
         /\ pc' = "idle"
         /\ UNCHANGED <<last_reindex, current_time, output, histVars>>
    ELSE /\ output' = "updated"
         /\ last_reindex' = now
         /\ current_time' = 0
         /\ pc' = "idle"
         /\ runs' = Ended("ok")
         /\ lastOkStart' = runs[2].start
         /\ lastDone' = now
         /\ UNCHANGED <<running, lastRelevant>>

\* main, lines 102-109: the observer is started.
\* trigger_reindex, lines 61-62: the time read at the callback's start is kept.
ReturnOk ==
    IF caller = "main"
    THEN /\ running' = TRUE
         /\ pc' = "idle"
         /\ UNCHANGED <<last_reindex, current_time, output, histVars>>
    ELSE /\ output' = "updated"
         /\ last_reindex' = current_time
         /\ current_time' = 0
         /\ pc' = "idle"
         /\ runs' = Ended("ok")
         /\ lastOkStart' = runs[2].start
         /\ lastDone' = now
         /\ UNCHANGED <<running, lastRelevant>>

\* trigger_reindex without its except clause: the exception leaves the callback
\* and ends the observer thread
ReturnRaiseUncaught ==
    IF caller = "main"
    THEN /\ pc' = "crashed"
         /\ UNCHANGED <<running, last_reindex, current_time, output, histVars>>
    ELSE /\ output' = "error"
         /\ current_time' = 0
         /\ pc' = "crashed"
         /\ runs' = Ended("failed")
         /\ UNCHANGED <<running, last_reindex, lastOkStart, lastDone, lastRelevant>>

\* main: nothing catches the exception.
\* trigger_reindex, lines 63-64: the exception is printed and the callback returns.
ReturnRaise ==
    IF caller = "main"
    THEN /\ pc' = "crashed"
         /\ UNCHANGED <<running, last_reindex, current_time, output, histVars>>
    ELSE /\ output' = "error"
         /\ current_time' = 0
         /\ pc' = "idle"
         /\ runs' = Ended("failed")
         /\ UNCHANGED <<running, last_reindex, lastOkStart, lastDone, lastRelevant>>

----------------------------------------------------------------------------
(* LambdaProjectIndexer.save_index *)

FileEvent(p) == Event(p, IF Exists(p) THEN "modified" ELSE "created")

\* np.savez, lines 162-165
SaveNpz(ok) ==
    /\ pc = "savez"
    /\ ok \/ upsets < MaxUpsets
    /\ upsets' = IF ok THEN upsets ELSE upsets + 1
    /\ IF ok
       THEN /\ disk_emb' = [exists |-> TRUE, data |-> Savez(embeddings)]
            /\ queue' = Emit(queue, <<FileEvent(emb_npz)>>)
            /\ pc' = "dump"
            /\ UNCHANGED <<running, last_reindex, current_time, output, histVars>>
       ELSE /\ ReturnRaise
            /\ UNCHANGED <<disk_emb, queue>>
    /\ failed' = {}
    /\ UNCHANGED <<fsVars, disk_meta, storeVars, now, caller, walkVars>>
    /\ UNCHANGED <<threads, cwd, chunker>>

\* open(.., 'w') and json.dump, lines 166-167: the document is written, or open
\* raises and leaves it, or json.dump raises after open has truncated it
SaveJson(how) ==
    /\ pc = "dump"
    /\ how = "ok" \/ upsets < MaxUpsets
    /\ upsets' = IF how = "ok" THEN upsets ELSE upsets + 1
    /\ CASE how = "ok" ->
              /\ disk_meta' = [state |-> "ok", data |-> JsonDump(metadata)]
              /\ queue' = Emit(queue, <<FileEvent(meta_json)>>)
              /\ ReturnOk
         [] how = "open" ->
              /\ ReturnRaise
              /\ UNCHANGED <<disk_meta, queue>>
         [] how = "dump" ->
              /\ disk_meta' = [state |-> "corrupt", data |-> EmptyMap]
              /\ queue' = Emit(queue, <<FileEvent(meta_json)>>)
              /\ ReturnRaise
    /\ UNCHANGED <<fsVars, disk_emb, storeVars, now, caller, walkVars, failed>>
    /\ UNCHANGED <<threads, cwd, chunker>>

----------------------------------------------------------------------------
(* auto_index.main *)

\* lines 95-98 and 106-109: load_index replaces embeddings from the vector
\* container, then metadata from the document; open or json.load raising on the
\* document ends the process, as nothing catches it
MainLoad ==
    /\ pc = "start"
    /\ disk_emb.exists
    /\ embeddings' = NpzLoad(disk_emb.data)
    /\ IF disk_meta.state = "ok"
       THEN /\ metadata' = JsonLoad(disk_meta.data)
            /\ running' = TRUE
            /\ pc' = "idle"
       ELSE /\ pc' = "crashed"
            /\ UNCHANGED <<metadata, running>>
    /\ UNCHANGED <<fsVars, diskVars, now, queue, last_reindex, caller, current_time,
                   output, walkVars, histVars, failed, upsets>>
    /\ UNCHANGED <<threads, cwd, chunker>>

\* lines 99-102: no vector container, so the index is built
MainBuild ==
    /\ pc = "start"
    /\ ~disk_emb.exists
    /\ IndexStart
    /\ pc' = "walk"
    /\ UNCHANGED <<fsVars, diskVars, storeVars, now, queue, last_reindex, running,
                   caller, current_time, output, histVars, upsets>>
    /\ UNCHANGED <<threads, cwd, chunker>>

----------------------------------------------------------------------------
(* ProjectFileHandler: on_modified, on_created, on_deleted -> trigger_reindex *)

\* line 51 with the delay taken in the clock's unit instead of seconds
DebouncedInTicks(t) == t - last_reindex < reindex_delay

\* line 51, on current_time t
Debounced(t) == t - last_reindex < Seconds(reindex_delay)

\* the observer thread takes the next event when no callback is running
CanDispatch == pc = "idle" /\ running /\ queue # << >>

\* lines 68, 73 and 78: a directory's event is not passed to trigger_reindex
DispatchDirectory ==
    /\ CanDispatch
    /\ Head(queue).is_directory
    /\ queue' = Tail(queue)
    /\ UNCHANGED <<fsVars, diskVars, storeVars, now, handlerVars, walkVars, histVars,
                   failed, upsets>>
    /\ UNCHANGED <<threads, cwd, chunker>>

\* a drop that restarts the window: the dropped event's time is kept as
\* last_reindex
DispatchDropRestartsWindow ==
    /\ CanDispatch
    /\ ~Head(queue).is_directory
    /\ Debounced(now)
    /\ queue' = Tail(queue)
    /\ last_reindex' = now
    /\ lastRelevant' = IF should_index(Head(queue).src_path) THEN Head(queue).at
                       ELSE lastRelevant
    /\ UNCHANGED <<fsVars, diskVars, storeVars, now, running, pc, caller,
                   current_time, output, walkVars, runs, lastOkStart, lastDone,
                   failed, upsets>>
    /\ UNCHANGED <<threads, cwd, chunker>>

\* lines 51-52: the event is dropped
DispatchDrop ==
    /\ CanDispatch
    /\ ~Head(queue).is_directory
    /\ Debounced(now)
    /\ queue' = Tail(queue)
    /\ lastRelevant' = IF should_index(Head(queue).src_path) THEN Head(queue).at
                       ELSE lastRelevant
    /\ UNCHANGED <<fsVars, diskVars, storeVars, now, handlerVars, walkVars, runs,
                   lastOkStart, lastDone, failed, upsets>>
    /\ UNCHANGED <<threads, cwd, chunker>>

\* line 54 is false: nothing is done
DispatchIgnore ==
    /\ CanDispatch
    /\ ~Head(queue).is_directory
    /\ ~Debounced(now)
    /\ ~should_index(Head(queue).src_path)
    /\ queue' = Tail(queue)
    /\ UNCHANGED <<fsVars, diskVars, storeVars, now, handlerVars, walkVars, histVars,
                   failed, upsets>>
    /\ UNCHANGED <<threads, cwd, chunker>>

\* lines 54-59: the re-index starts, inside the callback
DispatchReindex ==
    /\ CanDispatch
    /\ ~Head(queue).is_directory
    /\ ~Debounced(now)
    /\ should_index(Head(queue).src_path)
    /\ queue' = Tail(queue)
    /\ current_time' = now
    /\ output' = "reindexing"
    /\ runs' = <<runs[2], [ev |-> Head(queue), start |-> now, result |-> "running",
                            prev |-> lastRelevant]>>
    /\ lastRelevant' = Head(queue).at
    /\ IndexStart
    /\ pc' = "walk"
    /\ caller' = "watcher"
    /\ UNCHANGED <<fsVars, diskVars, storeVars, now, last_reindex, running,
                   lastOkStart, lastDone, upsets>>
    /\ UNCHANGED <<threads, cwd, chunker>>

----------------------------------------------------------------------------

Next ==
    \/ Tick
    \/ \E p \in UserFiles : CreateFile(p)
    \/ \E p \in Mutable : ModifyFile(p)
    \/ \E p \in UserFiles : DeleteFile(p)
    \/ \E d \in Subdirs(<< >>) : TouchDir(d)
    \/ MainLoad
    \/ MainBuild
    \/ WalkDir
    \/ \E f \in AllFiles, ok \in BOOLEAN : EmbedFile(f, ok)
    \/ MetaFile
    \/ WalkEnd
    \/ \E ok \in BOOLEAN : SaveNpz(ok)
    \/ \E how \in {"ok", "open", "dump"} : SaveJson(how)
    \/ DispatchDirectory
    \/ DispatchDrop
    \/ DispatchIgnore
    \/ DispatchReindex

Spec == Init /\ [][Next]_vars

----------------------------------------------------------------------------
(* rag_server: /api/ask and /api/reindex, each request on a thread of its own, *)
(* all on the module's one indexer                                            *)

srvFrame == <<fsVars, now, last_reindex, queue, running, pc, caller, current_time,
              output, walkVars, histVars, failed, upsets, cwd, chunker>>

Set(t, r) == threads' = [threads EXCEPT ![t] = r]

Respond(t, what) == Set(t, [IdleThread EXCEPT !.raised = what, !.last = "reindex"])

\* the request of thread t has ended: what search returned or raised
Answer(t, what, res) ==
    Set(t, [IdleThread EXCEPT !.raised = what, !.last = "ask", !.results = res,
                              !.q = threads[t].q, !.top_k = threads[t].top_k])

\* ask, lines 240-245, and search, lines 121-125: the loop over
\* self.embeddings.items() begins
AskStart(t, q, k) ==
    /\ threads[t].pc = "idle"
    /\ Set(t, [IdleThread EXCEPT !.pc = "iter", !.q = q, !.top_k = k,
                                 !.size0 = Cardinality(DOMAIN embeddings)])
    /\ UNCHANGED <<srvFrame, diskVars, storeVars>>

\* lines 125-129: the next item; a mapping whose size has changed since the loop
\* began makes the iterator raise RuntimeError
AskIter(t, key) ==
    /\ threads[t].pc = "iter"
    /\ Cardinality(DOMAIN embeddings) = threads[t].size0
    /\ key \in DOMAIN embeddings \ DOMAIN threads[t].sims
    /\ Set(t, [threads[t] EXCEPT !.sims = Put(@, key, Score(threads[t].q, embeddings[key]))])
    /\ UNCHANGED <<srvFrame, diskVars, storeVars>>

AskIterRaise(t) ==
    /\ threads[t].pc = "iter"
    /\ Cardinality(DOMAIN embeddings) # threads[t].size0
    /\ Answer(t, "RuntimeError", << >>)
    /\ UNCHANGED <<srvFrame, diskVars, storeVars>>

\* lines 132-136: the loop is over, the files are ranked and cut to top_k
AskRank(t) ==
    /\ threads[t].pc = "iter"
    /\ Cardinality(DOMAIN embeddings) = threads[t].size0
    /\ DOMAIN embeddings \subseteq DOMAIN threads[t].sims
    /\ \E s \in Sorted(threads[t].sims) :
          Set(t, [threads[t] EXCEPT !.pc = "lookup", !.top = Slice(s, threads[t].top_k)])
    /\ UNCHANGED <<srvFrame, diskVars, storeVars>>

\* lines 138-146: self.metadata[filepath] for every file kept; a missing key
\* raises KeyError
AskLookup(t) ==
    /\ threads[t].pc = "lookup"
    /\ IF \A i \in 1..Len(threads[t].top) : threads[t].top[i] \in DOMAIN metadata
       THEN Answer(t, "none",
                   [i \in 1..Len(threads[t].top) |->
                       [file     |-> threads[t].top[i],
                        score    |-> threads[t].sims[threads[t].top[i]],
                        metadata |-> metadata[threads[t].top[i]]]])
       ELSE Answer(t, "KeyError", << >>)
    /\ UNCHANGED <<srvFrame, diskVars, storeVars>>

\* reindex, lines 310-311: index_project("./")
ReindexStart(t) ==
    /\ threads[t].pc = "idle"
    /\ Set(t, [IdleThread EXCEPT !.pc = "walk", !.dirs = << << >> >>])
    /\ UNCHANGED <<srvFrame, diskVars, storeVars>>

\* index_project on thread t, as WalkDir, EmbedFile, MetaFile and WalkEnd
SrvWalkDir(t) ==
    /\ threads[t].pc = "walk"
    /\ threads[t].dirs # << >>
    /\ LET d == Head(threads[t].dirs) IN
        \E sub \in Perms(KeptDirs(d)) :
            Set(t, [threads[t] EXCEPT !.dirs = sub \o Tail(@), !.files = KeptFiles(d),
                                      !.pc = NextFile(KeptFiles(d))])
    /\ UNCHANGED <<srvFrame, diskVars, storeVars>>

SrvEmbedFile(t, f) ==
    /\ threads[t].pc = "body"
    /\ f \in threads[t].files
    /\ IF Exists(f)
       THEN /\ embeddings' = Put(embeddings, f, Vec(Content(f)))
            /\ Set(t, [threads[t] EXCEPT !.file = f, !.pc = "meta"])
       ELSE /\ Set(t, [threads[t] EXCEPT !.files = @ \ {f}, !.pc = NextFile(threads[t].files \ {f})])
            /\ UNCHANGED embeddings
    /\ UNCHANGED <<srvFrame, diskVars, metadata>>

SrvMetaFile(t) ==
    /\ threads[t].pc = "meta"
    /\ LET f == threads[t].file IN
        /\ IF Exists(f)
           THEN metadata' = Put(metadata, f, MetaEntry(f, Content(f)))
           ELSE UNCHANGED metadata
        /\ Set(t, [threads[t] EXCEPT !.files = @ \ {f}, !.file = << >>,
                                     !.pc = NextFile(threads[t].files \ {f})])
    /\ UNCHANGED <<srvFrame, diskVars, embeddings>>

\* index_project returns; save_index, line 164: the comprehension over
\* self.embeddings.items() begins
SrvWalkEnd(t) ==
    /\ threads[t].pc = "walk"
    /\ threads[t].dirs = << >>
    /\ Set(t, [threads[t] EXCEPT !.pc = "savez", !.size0 = Cardinality(DOMAIN embeddings)])
    /\ UNCHANGED <<srvFrame, diskVars, storeVars>>

\* lines 162-166: the comprehension ends (RuntimeError when the mapping's size
\* has changed, which reindex catches), the container is written, and json.dump
\* begins on self.metadata
SrvSavez(t) ==
    /\ threads[t].pc = "savez"
    /\ IF Cardinality(DOMAIN embeddings) = threads[t].size0
       THEN /\ disk_emb' = [exists |-> TRUE, data |-> Savez(embeddings)]
            /\ Set(t, [threads[t] EXCEPT !.pc = "dump", !.size0 = Cardinality(DOMAIN metadata)])
       ELSE /\ Respond(t, "RuntimeError")
            /\ UNCHANGED disk_emb
    /\ UNCHANGED <<srvFrame, disk_meta, storeVars>>

\* line 167: json.dump ends, or raises RuntimeError on a mapping whose size has
\* changed, leaving the document cut short
SrvDump(t) ==
    /\ threads[t].pc = "dump"
    /\ IF Cardinality(DOMAIN metadata) = threads[t].size0
       THEN /\ disk_meta' = [state |-> "ok", data |-> JsonDump(metadata)]
            /\ Respond(t, "none")
       ELSE /\ disk_meta' = [state |-> "corrupt", data |-> EmptyMap]
            /\ Respond(t, "RuntimeError")
    /\ UNCHANGED <<srvFrame, disk_emb, storeVars>>

\* the module's lines 29-34: the saved index of an earlier run has been loaded
InitServer ==
    /\ cwd = << Comp("/", ""), Comp("proj", "") >>
    /\ fs = [p \in UserFiles |-> 1]
    /\ disk_emb = [exists |-> TRUE, data |-> Savez(FirstEmb)]
    /\ disk_meta = [state |-> "ok", data |-> JsonDump(FirstMeta)]
    /\ embeddings = FirstEmb
    /\ metadata = FirstMeta
    /\ now = StartTime
    /\ last_reindex = 0
    /\ queue = << >>
    /\ running = FALSE
    /\ pc = "serving"
    /\ caller = "main"
    /\ current_time = 0
    /\ output = "none"
    /\ dirsTodo = << >>
    /\ filesTodo = {}
    /\ file = << >>
    /\ runs = <<NoRun, NoRun>>
    /\ lastOkStart = -1
    /\ lastDone = -1
    /\ lastRelevant = -1
    /\ failed = {}
    /\ upsets = 0
    /\ threads = [t \in Threads |-> IdleThread]
    /\ chunker = NoChunking

NextServer ==
    \/ \E t \in Threads, q \in Queries, k \in TopKs : AskStart(t, q, k)
    \/ \E t \in Threads, key \in AllFiles : AskIter(t, key)
    \/ \E t \in Threads : AskIterRaise(t)
    \/ \E t \in Threads : AskRank(t)
    \/ \E t \in Threads : AskLookup(t)
    \/ \E t \in Threads : ReindexStart(t)
    \/ \E t \in Threads : SrvWalkDir(t)
    \/ \E t \in Threads, f \in AllFiles : SrvEmbedFile(t, f)
    \/ \E t \in Threads : SrvMetaFile(t)
    \/ \E t \in Threads : SrvWalkEnd(t)
    \/ \E t \in Threads : SrvSavez(t)
    \/ \E t \in Threads : SrvDump(t)

SpecServer == InitServer /\ [][NextServer]_vars

Searching(t) == threads[t].pc \in {"iter", "lookup"}
Writing(t)   == threads[t].pc \in {"walk", "body", "meta", "savez", "dump"}

\* C5: no search runs while an index_project or save_index runs, no two of
\* those overlap, and no request fails on a store it saw part-way through a
\* mutation.
C5_Serialized ==
    /\ \A t, u \in Threads : (t # u /\ Writing(t)) => ~(Searching(u) \/ Writing(u))
    /\ \A t \in Threads : threads[t].raised \notin {"KeyError", "RuntimeError"}


----------------------------------------------------------------------------
(* LambdaProjectIndexer.search on a store at rest: requests to /api/ask only *)

\* the store after a re-index that found a.py changed and the metadata document
ChangedEmb  == [p \in {a_py, b_md, meta_json} |->
                  IF p = a_py THEN Vec(2) ELSE IF p = b_md THEN Vec(1) ELSE Vec(12)]
ChangedMeta == [p \in {a_py, b_md, meta_json} |->
                  IF p = a_py THEN MetaEntry(p, 2) ELSE IF p = b_md THEN MetaEntry(p, 1)
                  ELSE MetaEntry(p, 12)]

\* stores index_project and load_index leave: every embed_file failed; the
\* first build; a later re-index; a build in which os.path.getsize(docs/b.md)
\* raised after the vector was stored
SearchStores ==
    { <<EmptyMap, EmptyMap>>, <<FirstEmb, FirstMeta>>, <<ChangedEmb, ChangedMeta>>,
      <<FirstEmb, OlderMeta>> }

InitSearch ==
    /\ cwd = << Comp("/", ""), Comp("proj", "") >>
    /\ fs = [p \in UserFiles |-> 1]
    /\ \E st \in SearchStores :
          /\ embeddings = st[1]
          /\ metadata = st[2]
          /\ disk_emb = [exists |-> TRUE, data |-> Savez(st[1])]
          /\ disk_meta = [state |-> "ok", data |-> JsonDump(st[2])]
    /\ now = StartTime
    /\ last_reindex = 0
    /\ queue = << >>
    /\ running = FALSE
    /\ pc = "serving"
    /\ caller = "main"
    /\ current_time = 0
    /\ output = "none"
    /\ dirsTodo = << >>
    /\ filesTodo = {}
    /\ file = << >>
    /\ runs = <<NoRun, NoRun>>
    /\ lastOkStart = -1
    /\ lastDone = -1
    /\ lastRelevant = -1
    /\ failed = {}
    /\ upsets = 0
    /\ threads = [t \in Threads |-> IdleThread]
    /\ chunker = NoChunking

NextSearch ==
    \/ \E t \in Threads, q \in Queries, k \in TopKs : AskStart(t, q, k)
    \/ \E t \in Threads, key \in AllFiles : AskIter(t, key)
    \/ \E t \in Threads : AskRank(t)
    \/ \E t \in Threads : AskLookup(t)

SpecSearch == InitSearch /\ [][NextSearch]_vars

\* thread t holds the outcome of a search
Asked(t) == threads[t].pc = "idle" /\ threads[t].last = "ask"

\* C16: search never raises, and on an empty store it returns the empty
\* sequence.
C16_SearchNeverRaises ==
    \A t \in Threads :
        Asked(t) => /\ threads[t].raised = "none"
                    /\ DOMAIN embeddings = {} => threads[t].results = << >>

\* what C17 says of a returned sequence res for query q and top_k k
TopKOf(res, q, k) ==
    /\ Len(res) = Min(k, Cardinality(DOMAIN embeddings))
    /\ \A i \in 1..Len(res) : res[i].file \in DOMAIN embeddings
    /\ \A i, j \in 1..Len(res) : i # j => res[i].file # res[j].file
    /\ \A i, j \in 1..Len(res) : i < j => res[i].score >= res[j].score
    /\ \A f \in DOMAIN embeddings \ {res[i].file : i \in 1..Len(res)} :
          \A i \in 1..Len(res) : Score(q, embeddings[f]) <= res[i].score

\* C17: with top_k >= 1, search returns min(top_k, number of indexed files)
\* results, for distinct indexed paths, in non-increasing order of score, and
\* no file left out scores higher than one returned.
C17_TopKResults ==
    \A t \in Threads :
        (Asked(t) /\ threads[t].top_k >= 1)
            => /\ threads[t].raised = "none"
               /\ TopKOf(threads[t].results, threads[t].q, threads[t].top_k)

\* C17 on the stores whose two key sets agree
C17_TopKResultsOnAgreeingStores ==
    \A t \in Threads :
        (Asked(t) /\ threads[t].top_k >= 1 /\ DOMAIN embeddings = DOMAIN metadata)
            => /\ threads[t].raised = "none"
               /\ TopKOf(threads[t].results, threads[t].q, threads[t].top_k)

\* C18: with top_k <= 0, a search that returns returns the empty sequence.
C18_NonPositiveTopKEmpty ==
    \A t \in Threads :
        (Asked(t) /\ threads[t].top_k <= 0 /\ threads[t].raised = "none")
            => threads[t].results = << >>

---------------------------------------------------------------------------------------------------------------------------------------------------
(* _chunk_text on its own: one call on any text and any positive limit *)

InitChunk ==
    /\ cwd = << Comp("/", ""), Comp("proj", "") >>
    /\ fs = [p \in UserFiles |-> 1]
    /\ disk_emb = NoIndexFile
    /\ disk_meta = NoMetaFile
    /\ embeddings = EmptyMap
    /\ metadata = EmptyMap
    /\ now = StartTime
    /\ last_reindex = 0
    /\ queue = << >>
    /\ running = FALSE
    /\ pc = "embed"
    /\ caller = "main"
    /\ current_time = 0
    /\ output = "none"
    /\ dirsTodo = << >>
    /\ filesTodo = {}
    /\ file = << >>
    /\ runs = <<NoRun, NoRun>>
    /\ lastOkStart = -1
    /\ lastDone = -1
    /\ lastRelevant = -1
    /\ failed = {}
    /\ upsets = 0
    /\ threads = [t \in Threads |-> IdleThread]
    /\ \E text \in Texts, max_length \in 1..MaxWords :
           chunker = [pc |-> "call", text |-> text, max_length |-> max_length,
                      chunks |-> << >>]

ChunkText ==
    /\ chunker.pc = "call"
    /\ chunker' = [chunker EXCEPT !.pc = "done",
                       !.chunks = chunk_text(chunker.text, chunker.max_length)]
    /\ UNCHANGED <<fsVars, diskVars, storeVars, now, queue, handlerVars,
                   walkVars, histVars, failed, upsets, threads, cwd>>

NextChunk == ChunkText

SpecChunk == InitChunk /\ [][NextChunk]_vars

-----
(* Claims *)

Window == Seconds(reindex_delay)

\* no index_project is part-way through the tree
Settled == pc \in {"idle", "savez", "dump"}

\* C1: whenever no index_project or load_index is under way, the key set of
\* embeddings equals the key set of metadata.
C1_KeySetsAgree == Settled => DOMAIN embeddings = DOMAIN metadata

\* C2: once the re-index started by the deletion of a file has completed, the
\* store holds neither a vector nor a metadata entry for the deleted path.
C2_DeletedFileGone ==
    LET e == runs[2].ev IN
    (pc = "idle" /\ runs[2].result = "ok" /\ e.kind = "deleted" /\ ~Exists(Rel(e.src_path)))
        => (Rel(e.src_path) \notin DOMAIN embeddings /\ Rel(e.src_path) \notin DOMAIN metadata)

\* C3: a relevant event that arrives less than the debounce window after the
\* last completed re-index starts no re-index.
C3_DroppedInsideWindow ==
    LET e == runs[2].ev IN
    (runs[2].result = "running" /\ lastDone >= 0 /\ e.at >= lastDone)
        => e.at - lastDone >= Window

\* C4 as stated: two re-index starts are never closer together than the debounce
\* window, whatever the outcome of the earlier one.
C4_OneStartPerWindow ==
    (runs[1].start >= 0 /\ runs[2].start >= 0) => runs[2].start - runs[1].start >= Window

\* C4 as amended: a re-index never starts less than the debounce window after
\* the start of an earlier re-index that succeeded.
C4_OneStartPerWindowAfterSuccess ==
    (runs[2].result = "running" /\ lastOkStart >= 0) => runs[2].start - lastOkStart >= Window

C4_Witness ==
    /\ runs[2].result = "running"
    /\ runs[1].result = "ok"
    /\ runs[2].start - runs[1].start >= Window

\* C6: when index_project has returned, no file whose embed_file raised in it
\* has a vector or a metadata entry.
C6_FailedFileNotIndexed ==
    pc = "savez" => \A f \in failed : f \notin DOMAIN embeddings /\ f \notin DOMAIN metadata


\* C7: when a watcher re-index fails, the error is printed, the callback returns
\* to idle with the observer still running and last_reindex as it was; and while
\* the latest re-index is a failed one, every relevant event that is dispatched
\* starts a re-index.
C7_FailureReturnsToIdle ==
    [][ /\ (runs[2].result = "running" /\ runs'[2].result = "failed")
            => (pc' = "idle" /\ running' /\ output' = "error"
                /\ last_reindex' = last_reindex)
        /\ (/\ runs[2].result = "failed"
            /\ queue # << >>
            /\ queue' = Tail(queue)
            /\ should_index(Head(queue).src_path))
            => (pc' = "walk" /\ runs'[2].result = "running" /\ runs'[2].ev = Head(queue))
      ]_vars

C7_Witness == runs[1].result = "failed" /\ runs[2].result = "running"

\* C8: a re-index starts only once the debounce delay has elapsed since the
\* arrival of the event that started it.
C8_StartsAfterDelay ==
    runs[2].result = "running" => runs[2].start - runs[2].ev.at >= Window

UserModify(e) == e.kind = "modified" /\ e.src_path \in {Abs(p) : p \in Mutable}

\* C9: of two modify events on project files that arrive less than the debounce
\* window apart, the second starts no re-index when the first has started one.
C9_OneReindexForTwoEvents ==
    ~ ( /\ UserModify(runs[1].ev)
        /\ UserModify(runs[2].ev)
        /\ runs[2].ev.at > runs[1].ev.at
        /\ runs[2].ev.at - runs[1].ev.at < Window )

\* C10: the callback returns without waiting for the re-index: while a re-index
\* is under way the observer thread can deliver a waiting event.
C10_DeliveryNotBlocked ==
    (running /\ queue # << >>) => ENABLED (DispatchDirectory \/ DispatchDrop \/ DispatchIgnore \/ DispatchReindex)

AllowList == {".py", ".md", ".json", ".yaml", ".yml", ".txt"}
Excluded  == {"venv", "__pycache__", ".git", "node_modules", ".venv"}

\* C11: the event that started a watcher re-index is a create, modify or delete
\* of a non-directory path whose extension is in the allow-list and none of
\* whose components is an excluded directory name.
C11_OnlyRelevantEventsStart ==
    LET e == runs[2].ev IN
    runs[2].result # "none" =>
        /\ e.kind \in {"created", "modified", "deleted"}
        /\ ~e.is_directory
        /\ Last(e.src_path).suffix \in AllowList
        /\ \A i \in 1..Len(e.src_path) :
              ~(e.src_path[i].suffix = "" /\ e.src_path[i].stem \in Excluded)

\* a re-index started by a deletion is running while an event of an excluded
\* directory's file has been handled without starting one
C11_Witness ==
    /\ runs[2].result = "running"
    /\ runs[2].ev.kind = "deleted"
    /\ runs[2].ev.src_path # Abs(c_py)
    /\ fs[c_py] = 0
    /\ \A i \in 1..Len(queue) : queue[i].src_path # Abs(c_py)

Saved == pc = "idle" /\ (caller = "main" \/ runs[2].result = "ok")

C14_LoadRejectsMismatch ==
    [][ (pc = "start" /\ pc' = "idle")
        => /\ disk_emb.exists
           /\ disk_meta.state = "ok"
           /\ NpzFiles(disk_emb.data) = DOMAIN disk_meta.data ]_vars

\* C15: at start-up, artifacts of which one is missing or which mismatch make
\* the process build a fresh index; it does not stop.
C15_FallsBackToBuild ==
    [][ ( /\ pc = "start"
          /\ \/ ~disk_emb.exists
             \/ disk_meta.state # "ok"
             \/ NpzFiles(disk_emb.data) # DOMAIN disk_meta.data )
        => pc' = "walk" ]_vars

\* mapping m has for path k after the step what it had before it
SameEntry(m, n, k) ==
    /\ k \in DOMAIN m <=> k \in DOMAIN n
    /\ k \in DOMAIN m => m[k] = n[k]

\* C19: the index update for a change of one path embeds no other file and
\* leaves every other path's vector and metadata as they were.
C19_OnlyChangedPathUpdated ==
    [][ (caller = "watcher" /\ pc \in {"body", "meta"})
        => /\ (pc = "body" /\ pc' = "meta") => file' = Rel(runs[2].ev.src_path)
           /\ \A k \in AllFiles \ {Rel(runs[2].ev.src_path)} :
                 /\ SameEntry(embeddings, embeddings', k)
                 /\ SameEntry(metadata, metadata', k) ]_vars

\* C20: when the re-index started by a file's modification has indexed that
\* file (embed_file did not fail on it, and it has not changed again since),
\* the store's vector and metadata for it are those of its new content.
C20_ChangedFileReplaced ==
    LET e == runs[2].ev
        f == Rel(e.src_path)
    IN  ( /\ pc = "savez"
          /\ caller = "watcher"
          /\ e.kind = "modified"
          /\ f \in Mutable
          /\ f \notin failed
          /\ \A i \in 1..Len(queue) : queue[i].src_path # e.src_path )
        => /\ f \in DOMAIN embeddings
           /\ f \in DOMAIN metadata
           /\ embeddings[f] = Vec(fs[f])
           /\ metadata[f] = MetaEntry(f, fs[f])

\* a.py, indexed with its first content, was modified and the re-index that
\* its event started has gone through the tree
C20_Witness ==
    /\ pc = "savez"
    /\ caller = "watcher"
    /\ runs[2].ev.kind = "modified"
    /\ runs[2].ev.src_path = Abs(a_py)
    /\ fs[a_py] = 2
    /\ a_py \notin failed
    /\ \A i \in 1..Len(queue) : queue[i].src_path # Abs(a_py)
    /\ metadata[a_py].size = Size(2)

\* the words of the chunks, in the order of the chunks
RECURSIVE Tokens(_)
Tokens(chunks) ==
    IF chunks = << >> THEN << >> ELSE split(Head(chunks)) \o Tokens(Tail(chunks))

\* C21: the words of the chunks that _chunk_text returns, taken chunk after
\* chunk, are the words of the text: none lost, none twice, none out of order.
C21_TokensPreserved ==
    chunker.pc = "done" => Tokens(chunker.chunks) = split(chunker.text)

\* a text with irregular white space that was split into several chunks
C21_Witness ==
    /\ chunker.pc = "done"
    /\ Len(chunker.chunks) >= 2
    /\ chunker.max_length >= 2
    /\ chunker.text # join(split(chunker.text))

\* C22: for a text of n >= 1 words no chunk has more than max_length words,
\* every chunk but the last has exactly max_length words, and there are
\* ceil(n / max_length) chunks.
C22_ChunkSizes ==
    LET n == Len(split(chunker.text))
        m == chunker.max_length
        c == chunker.chunks
    IN  (chunker.pc = "done" /\ n >= 1) =>
            /\ \A i \in 1..Len(c) : Len(split(c[i])) <= m
            /\ \A i \in 1..(Len(c) - 1) : Len(split(c[i])) = m
            /\ Len(c) = (n + m - 1) \div m

\* four words at three words a chunk: a full chunk and a shorter last one
C22_Witness ==
    /\ chunker.pc = "done"
    /\ Len(split(chunker.text)) = 4
    /\ chunker.max_length = 3
    /\ Len(chunker.chunks) = 2

\* no directory component of the relative path p is an excluded name
BelowKeptDirs(p) == \A i \in 1..(Len(p) - 1) : ~NameIn(p[i], Excluded)

\* every failure so far was a file that could not be read or embedded: the
\* tree itself is as it was when the walk began
OnlyFilesFailed == upsets = Cardinality(failed)

\* C23: when index_project(root) has walked the tree for an empty store, every
\* key is a path relative to root with an allow-listed extension and no
\* excluded directory above it, and every such file under root that could be
\* read and embedded has its vector and its metadata entry.
C23_IndexedExactlyEligible ==
    (pc = "savez" /\ caller = "main" /\ OnlyFilesFailed) =>
        /\ \A k \in DOMAIN embeddings \cup DOMAIN metadata :
              /\ k \in AllFiles
              /\ Last(k).suffix \in AllowList
              /\ BelowKeptDirs(k)
        /\ \A p \in AllFiles :
              (Exists(p) /\ Last(p).suffix \in AllowList /\ BelowKeptDirs(p)
                 /\ p \notin failed)
              => (p \in DOMAIN embeddings /\ p \in DOMAIN metadata)

\* the first build is through: one eligible file could not be embedded, another
\* is indexed, and the file under venv is still there
C23_Witness ==
    /\ pc = "savez"
    /\ caller = "main"
    /\ OnlyFilesFailed
    /\ failed = {a_py}
    /\ b_md \in DOMAIN embeddings
    /\ Exists(c_py)

\* the index in memory and the persisted index show file p as it is in the tree
Reflected(p) ==
    IF Exists(p)
    THEN /\ p \in DOMAIN embeddings /\ embeddings[p] = Vec(Content(p))
         /\ p \in DOMAIN metadata
         /\ disk_emb.exists
         /\ p \in DOMAIN NpzLoad(disk_emb.data)
         /\ NpzLoad(disk_emb.data)[p] = Vec(Content(p))
    ELSE /\ p \notin DOMAIN embeddings \cup DOMAIN metadata
         /\ disk_emb.exists => p \notin DOMAIN NpzLoad(disk_emb.data)

\* C24: a change of an eligible file is reflected in the index in memory and on
\* disk even when no event follows it; so when the handler drops the event of
\* such a change and no event is waiting behind it, the change must be in
\* both already, for the drop changes neither and nothing runs after it.
C24_LastChangeReflected ==
    [][ ( /\ CanDispatch
          /\ ~Head(queue).is_directory
          /\ Debounced(now)
          /\ should_index(Head(queue).src_path)
          /\ Rel(Head(queue).src_path) \in UserFiles
          /\ queue' = << >>
          /\ pc' = "idle" )
        => Reflected(Rel(Head(queue).src_path)) ]_vars

\* the two artifacts are there, readable, and hold the same keys
MatchingPair ==
    /\ disk_emb.exists
    /\ disk_meta.state = "ok"
    /\ NpzFiles(disk_emb.data) = DOMAIN disk_meta.data

\* C25: however a save_index call ends once it has written the vector
\* container -- returning, or raising at the metadata document -- the two
\* artifacts on disk have the same key set and can be loaded together.
C25_SavedPairMatches ==
    [][ (pc = "dump" /\ pc' # "dump") => MatchingPair' ]_vars

\* C26: a load_index that raises leaves embeddings and metadata as they were
\* before the call.
C26_FailedLoadChangesNothing ==
    [][ (pc = "start" /\ disk_emb.exists /\ pc' = "crashed")
        => (embeddings' = embeddings /\ metadata' = metadata) ]_vars

\* the files index_project(root) reaches: those kept in the directories that
\* the walk descends into
RECURSIVE WalkedFiles(_)
WalkedFiles(d) == KeptFiles(d) \cup UNION {WalkedFiles(e) : e \in KeptDirs(d)}

\* C27: for every file under the project root, should_index on the path the
\* watcher reports for it is true exactly when index_project(root) would index
\* the file.
C27_WatcherAgreesWithWalk ==
    \A p \in AllFiles :
        Exists(p) => (should_index(Abs(p)) <=> p \in WalkedFiles(<< >>))

\* C28: a step in which the handler takes an event and starts no re-index (the
\* event is dropped by the debounce test, judged irrelevant, or a directory's)
\* changes neither the index in memory, nor the index files, nor last_reindex;
\* and last_reindex changes only in the step that ends a watcher re-index
\* whose index_project and save_index have both completed.
C28_DroppedEventChangesNothing ==
    [][ /\ (CanDispatch /\ queue' = Tail(queue) /\ pc' = "idle")
            => UNCHANGED <<embeddings, metadata, disk_emb, disk_meta, last_reindex>>
        /\ (last_reindex' # last_reindex)
            => /\ pc = "dump" /\ pc' = "idle"
               /\ caller = "watcher"
               /\ output' = "updated"
               /\ disk_emb = [exists |-> TRUE, data |-> Savez(embeddings)]
               /\ disk_meta' = [state |-> "ok", data |-> JsonDump(metadata)]
      ]_vars

\* a re-index has succeeded and set last_reindex, and a relevant event that
\* came after the one that started it has been taken without a new start
C28_Witness ==
    /\ running /\ pc = "idle" /\ queue = << >>
    /\ runs[2].result = "ok"
    /\ last_reindex = runs[2].start
    /\ lastRelevant > runs[2].ev.at

====
